---- MODULE Spec2Model ----
(***************************************************************************)
(* Faber trend-following back test (src/app.py): back_test, calc_stats and *)
(* the re-runs of main() that feed them.                                   *)
(*                                                                         *)
(* Floats are modelled as exact rationals <<num, den>> in lowest terms     *)
(* with den > 0; the float NaN is <<0, 0>>.  Closes are strictly positive, *)
(* so no infinity arises.  Timestamps are civil dates [year, month, day],  *)
(* ordered by their day number.                                            *)
(***************************************************************************)
EXTENDS Integers, Sequences, FiniteSets

\* ------------------------------------------------------------------ bounds
MaxLen == 4          \* longest downloaded price series (rows)
MaxClose == 2        \* closes range over 1..MaxClose
MaxSma == 3          \* SMA windows range over MinSma..MaxSma
NumYears == 3        \* years in which a downloaded series may begin

\* ------------------------------------------------------- program constants
MaxStartYear == 2022 \* upper end of the "Start Year" slider
MinSma == 2          \* min_value of the "SMA Period" input
MonthsPerYear == 12  \* annualization of monthly returns

\* ------------------------------------------------------- float arithmetic
NaN == <<0, 0>>

IsNaN(x) == x[2] = 0

Abs(n) == IF n < 0 THEN -n ELSE n

RECURSIVE GCD(_, _)
GCD(a, b) == IF b = 0 THEN a ELSE GCD(b, a % b)

\* n/d with d > 0, in lowest terms
Rat(n, d) == LET g == GCD(Abs(n), d) IN <<n \div g, d \div g>>

Zero == <<0, 1>>
One == <<1, 1>>

RAdd(x, y) == IF IsNaN(x) \/ IsNaN(y) THEN NaN
              ELSE Rat(x[1] * y[2] + y[1] * x[2], x[2] * y[2])

RSub(x, y) == IF IsNaN(x) \/ IsNaN(y) THEN NaN
              ELSE Rat(x[1] * y[2] - y[1] * x[2], x[2] * y[2])

RMul(x, y) == IF IsNaN(x) \/ IsNaN(y) THEN NaN
              ELSE Rat(x[1] * y[1], x[2] * y[2])

\* x / y; 0/0 is NaN.  A non-zero value over zero (an infinity) needs a
\* zero close and is outside the strictly positive inputs modelled here.
RDiv(x, y) == IF IsNaN(x) \/ IsNaN(y) \/ y[1] = 0 THEN NaN
              ELSE IF y[1] > 0 THEN Rat(x[1] * y[2], x[2] * y[1])
              ELSE Rat(-(x[1] * y[2]), x[2] * (-y[1]))

\* comparisons with NaN are False
RGt(x, y) == ~IsNaN(x) /\ ~IsNaN(y) /\ x[1] * y[2] > y[1] * x[2]
RLe(x, y) == ~IsNaN(x) /\ ~IsNaN(y) /\ x[1] * y[2] <= y[1] * x[2]
RMax(x, y) == IF RGt(y, x) THEN y ELSE x
RMin(x, y) == IF RGt(x, y) THEN y ELSE x

\* ---------------------------------------------------------------- calendar
Timestamp(y, m, d) == [year |-> y, month |-> m, day |-> d]

\* days since 1970-01-01 of a civil date
Ord(ts) ==
    LET yy  == IF ts.month <= 2 THEN ts.year - 1 ELSE ts.year
        era == yy \div 400
        yoe == yy - era * 400
        mp  == (ts.month + 9) % 12
        doy == (153 * mp + 2) \div 5 + ts.day - 1
        doe == yoe * 365 + yoe \div 4 - yoe \div 100 + doy
    IN  era * 146097 + doe - 719468

\* Monday = 0 .. Sunday = 6
Weekday(ts) == (Ord(ts) + 3) % 7

\* first business day (Mon..Fri) of the month y-m
FirstBusinessDay(y, m) ==
    LET w == Weekday(Timestamp(y, m, 1))
    IN  IF w = 5 THEN 3 ELSE IF w = 6 THEN 2 ELSE 1

\* ts - pd.offsets.BMonthBegin(1): with n = -1, a date after the first
\* business day of its month rolls back to that day (n becomes 0), any
\* other date goes to the first business day of the previous month.
MinusBMonthBegin(ts) ==
    LET n  == IF ts.day > FirstBusinessDay(ts.year, ts.month) THEN 0 ELSE -1
        m0 == ts.year * 12 + (ts.month - 1) + n
        y  == m0 \div 12
        m  == (m0 % 12) + 1
    IN  Timestamp(y, m, FirstBusinessDay(y, m))

\* the month after ts, stamped on its first calendar day (interval="1mo")
NextMonthStart(ts) ==
    IF ts.month = 12 THEN Timestamp(ts.year + 1, 1, 1)
    ELSE Timestamp(ts.year, ts.month + 1, 1)

\* ------------------------------------------------------- column operations
\* a column as a concrete sequence of its values
Tup(f) == f \o <<>>

\* x["Close"] as floats
CloseCol(data) == Tup([i \in 1..Len(data) |-> Rat(data[i].Close, 1)])

Index(data) == Tup([i \in 1..Len(data) |-> data[i].Date])

RECURSIVE WindowSum(_, _, _)
WindowSum(s, lo, hi) ==
    IF lo > hi THEN Zero ELSE RAdd(s[lo], WindowSum(s, lo + 1, hi))

\* x["Close"].rolling(window=n_sma).mean(): NaN until n_sma rows are there
sma(Close, n) ==
    Tup([i \in 1..Len(Close) |->
        IF i < n THEN NaN
        ELSE RDiv(WindowSum(Close, i - n + 1, i), Rat(n, 1))])

\* x["Close"].gt(x["sma"]).astype(int): a comparison with NaN is False
above(Close, smaCol) ==
    Tup([i \in 1..Len(Close) |-> IF RGt(Close[i], smaCol[i]) THEN One ELSE Zero])

\* Series.shift(1): the first row becomes NaN
shift1(s) == Tup([i \in 1..Len(s) |-> IF i = 1 THEN NaN ELSE s[i - 1]])

\* the look-ahead variant: the signal of the same row
pos_noshift(Close, smaCol) == above(Close, smaCol)

pos(Close, smaCol) == shift1(above(Close, smaCol))

\* Series.diff(): s[i] - s[i-1], NaN at the first row
diff(s) == Tup([i \in 1..Len(s) |-> IF i = 1 THEN NaN ELSE RSub(s[i], s[i - 1])])

\* Series.shift(-1): the last row becomes NaN
shiftm1(s) == Tup([i \in 1..Len(s) |-> IF i = Len(s) THEN NaN ELSE s[i + 1]])

fillna0(s) == Tup([i \in 1..Len(s) |-> IF IsNaN(s[i]) THEN Zero ELSE s[i]])

\* the variant that marks the row in which the position has changed
trade_noshift(posCol) == fillna0(diff(posCol))

trade(posCol) == fillna0(shiftm1(diff(posCol)))

\* x["Close"].pct_change(): NaN at the first row
ret(Close) ==
    Tup([i \in 1..Len(Close) |->
        IF i = 1 THEN NaN ELSE RSub(RDiv(Close[i], Close[i - 1]), One)])

ret_strat(retCol, posCol) ==
    Tup([i \in 1..Len(retCol) |-> RMul(retCol[i], posCol[i])])

\* number of leading rows that .loc[first_prev_month_day:] drops
RECURSIVE Dropped(_, _, _)
Dropped(index, from, i) ==
    IF i > Len(index) THEN Len(index)
    ELSE IF Ord(index[i]) >= Ord(from) THEN i - 1
    ELSE Dropped(index, from, i + 1)

\* product of the non-NaN values among s[1..i] (1 when there is none)
RECURSIVE ProdSkipNa(_, _)
ProdSkipNa(s, i) ==
    IF i = 0 THEN One
    ELSE IF IsNaN(s[i]) THEN ProdSkipNa(s, i - 1)
    ELSE RMul(s[i], ProdSkipNa(s, i - 1))

\* the variant in which a NaN poisons every later product
RECURSIVE ProdAll(_, _)
ProdAll(s, i) == IF i = 0 THEN One ELSE RMul(s[i], ProdAll(s, i - 1))

cumprod_propagating(s) == Tup([i \in 1..Len(s) |-> ProdAll(s, i)])

\* Series.cumprod() (skipna=True): NaN where the row is NaN, else the
\* product of the non-NaN rows so far
cumprod(s) ==
    Tup([i \in 1..Len(s) |-> IF IsNaN(s[i]) THEN NaN ELSE ProdSkipNa(s, i)])

RECURSIVE MaxSkipNa(_, _)
MaxSkipNa(s, i) ==
    IF i = 0 THEN NaN
    ELSE LET m == MaxSkipNa(s, i - 1)
         IN  IF IsNaN(s[i]) THEN m
             ELSE IF IsNaN(m) THEN s[i]
             ELSE RMax(s[i], m)

\* Series.cummax() (skipna=True)
cummax(s) ==
    Tup([i \in 1..Len(s) |-> IF IsNaN(s[i]) THEN NaN ELSE MaxSkipNa(s, i)])

\* series.multiply(series.index >= start_dt).add(1).cumprod().sub(1);
\* the mask is 0/1 and NaN * 0 is NaN
_calc_cum_ret(series, index, start_dt) ==
    LET masked == Tup([i \in 1..Len(series) |->
                      RMul(series[i],
                           IF Ord(index[i]) >= Ord(start_dt) THEN One ELSE Zero)])
        plus1  == Tup([i \in 1..Len(series) |-> RAdd(masked[i], One)])
        cp     == cumprod(plus1)
    IN  Tup([i \in 1..Len(series) |-> RSub(cp[i], One)])

\* the variant with the difference taken the other way round
_calc_drawdowns_flipped(r_cum) ==
    LET idx        == Tup([i \in 1..Len(r_cum) |-> RAdd(One, r_cum[i])])
        prev_peaks == cummax(idx)
    IN  Tup([i \in 1..Len(r_cum) |->
            RDiv(RSub(prev_peaks[i], idx[i]), prev_peaks[i])])

_calc_drawdowns(r_cum) ==
    LET idx        == Tup([i \in 1..Len(r_cum) |-> RAdd(One, r_cum[i])])
        prev_peaks == cummax(idx)
    IN  Tup([i \in 1..Len(r_cum) |->
            RDiv(RSub(idx[i], prev_peaks[i]), prev_peaks[i])])

\* ---------------------------------------------------------------- back_test
back_test(data, start_year, n_sma) ==
    LET start_dt == Timestamp(start_year, 1, 1)
        first_prev_month_day == MinusBMonthBegin(start_dt)
        Close  == CloseCol(data)
        smaC   == sma(Close, n_sma)
        posC   == pos(Close, smaC)
        tradeC == trade(posC)
        retC   == ret(Close)
        rsC    == ret_strat(retC, posC)
        k      == Dropped(Index(data), first_prev_month_day, 1)
        m      == Len(data) - k
        index  == Tup([i \in 1..m |-> data[i + k].Date])
        retT   == Tup([i \in 1..m |-> retC[i + k]])
        rsT    == Tup([i \in 1..m |-> rsC[i + k]])
        bh     == _calc_cum_ret(retT, index, start_dt)
        bh_dd  == _calc_drawdowns(bh)
        strat  == _calc_cum_ret(rsT, index, start_dt)
        st_dd  == _calc_drawdowns(strat)
    IN  Tup([i \in 1..m |->
            [Date      |-> index[i],
             Close     |-> Close[i + k],
             sma       |-> smaC[i + k],
             pos       |-> posC[i + k],
             trade     |-> tradeC[i + k],
             ret       |-> retT[i],
             ret_strat |-> rsT[i],
             bh        |-> bh[i],
             bh_dd     |-> bh_dd[i],
             strat     |-> strat[i],
             strat_dd  |-> st_dd[i]]])

\* --------------------------------------------------------------- calc_stats
\* (1 + rets).prod() ** (12 / len(rets)) - 1, kept as the base of the power
\* and the two parts of its exponent; prod() skips NaN, len() counts rows
_calc_ann_ret(rets) ==
    [prod  |-> ProdSkipNa(Tup([i \in 1..Len(rets) |-> RAdd(One, rets[i])]),
                          Len(rets)),
     num   |-> MonthsPerYear,
     count |-> Len(rets)]

RECURSIVE MinSkipNa(_, _)
MinSkipNa(s, i) ==
    IF i = 0 THEN NaN
    ELSE LET m == MinSkipNa(s, i - 1)
         IN  IF IsNaN(s[i]) THEN m
             ELSE IF IsNaN(m) THEN s[i]
             ELSE RMin(s[i], m)

Column(bt, c) == Tup([i \in 1..Len(bt) |-> bt[i][c]])

\* the "Return (annual)" and "Max DrawDown" columns; the volatility (a
\* square root) and the ratio built on it are not represented
calc_stats(bt) ==
    [ReturnAnnual |->
        [BuyHold  |-> _calc_ann_ret(Column(bt, "ret")),
         Strategy |-> _calc_ann_ret(Column(bt, "ret_strat"))],
     MaxDrawDown |->
        [BuyHold  |-> MinSkipNa(Column(bt, "bh_dd"), Len(bt)),
         Strategy |-> MinSkipNa(Column(bt, "strat_dd"), Len(bt))]]

\* -------------------------------------------------------------------- state
VARIABLES data, start_year, n_sma, bt_data, stats

vars == <<data, start_year, n_sma, bt_data, stats>>

Closes == 1..MaxClose
SmaPeriods == MinSma..MaxSma
DataYears == (MaxStartYear - NumYears)..(MaxStartYear - 1)
FirstMonths == {1, 11, 12}

RECURSIVE MonthlyIndex(_, _)
MonthlyIndex(first, n) ==
    IF n = 0 THEN <<>>
    ELSE <<first>> \o MonthlyIndex(NextMonthStart(first), n - 1)

\* the price series download_data can return: monthly rows stamped on the
\* first calendar day of consecutive months, strictly positive closes
Series(first, closes) ==
    LET ix == MonthlyIndex(first, Len(closes))
    IN  Tup([i \in 1..Len(closes) |-> [Date |-> ix[i], Close |-> closes[i]]])

CloseSeqs == UNION {[1..n -> Closes] : n \in 1..MaxLen}

\* the slider offers data.index[0].year .. 2022, and a download runs up to
\* the present, past the first day of the chosen year
SliderYears(d) ==
    {y \in d[1].Date.year..MaxStartYear :
        Ord(d[Len(d)].Date) >= Ord(Timestamp(y, 1, 1))}

\* one run of main(): back_test, then calc_stats on its table
Run(d, y, n) ==
    /\ data' = d
    /\ start_year' = y
    /\ n_sma' = n
    /\ bt_data' = back_test(d, y, n)
    /\ stats' = calc_stats(bt_data')

Init ==
    \E fy \in DataYears, fm \in FirstMonths, cs \in CloseSeqs, n \in SmaPeriods :
        LET d == Series(Timestamp(fy, fm, 1), cs) IN
        \E y \in SliderYears(d) :
            /\ data = d
            /\ start_year = y
            /\ n_sma = n
            /\ bt_data = back_test(d, y, n)
            /\ stats = calc_stats(bt_data)

\* the "Start Year" slider is moved
SetStartYear ==
    \E y \in SliderYears(data) :
        /\ y # start_year
        /\ Run(data, y, n_sma)

\* the "SMA Period" input is changed
SetNSma ==
    \E n \in SmaPeriods :
        /\ n # n_sma
        /\ Run(data, start_year, n)

\* download_data returns the series with one close revised
Reprice ==
    \E k \in 1..Len(data), v \in Closes :
        /\ v # data[k].Close
        /\ Run([data EXCEPT ![k].Close = v], start_year, n_sma)

\* download_data returns the series with the next month added
NextMonth ==
    \E v \in Closes :
        /\ Len(data) < MaxLen
        /\ Run(Append(data, [Date  |-> NextMonthStart(data[Len(data)].Date),
                             Close |-> v]),
               start_year, n_sma)

Next == SetStartYear \/ SetNSma \/ Reprice \/ NextMonth

Spec == Init /\ [][Next]_vars

\* ------------------------------------------------------------------ claims
Rows == 1..Len(bt_data)
start_dt == Timestamp(start_year, 1, 1)
OnOrAfterStart(i) == Ord(bt_data[i].Date) >= Ord(start_dt)
MinusOne == <<-1, 1>>

\* row of data that row i of bt_data was computed from
Src(i) == i + (Len(data) - Len(bt_data))

\* C1: causality.  When a re-run differs from the previous one only in the
\* closes of row k and later rows (same timestamps, same start_year, same
\* n_sma), pos is unchanged at every row of the table up to and including
\* the row of timestamp k.
C1_Causality ==
    [][\A k \in 1..Len(data) :
          ( /\ Index(data') = Index(data)
            /\ start_year' = start_year
            /\ n_sma' = n_sma
            /\ \A j \in 1..(k - 1) : data'[j].Close = data[j].Close )
          => /\ Len(bt_data') = Len(bt_data)
             /\ \A i \in Rows :
                   Src(i) <= k => /\ bt_data'[i].Date = bt_data[i].Date
                                  /\ bt_data'[i].pos = bt_data[i].pos]_vars

\* C1 witness: a row that is invested although its own close is not above
\* its own SMA: pos was decided by the previous row.
C1_Witness ==
    \E i \in Rows :
        /\ bt_data[i].pos = One
        /\ ~IsNaN(bt_data[i].sma)
        /\ ~RGt(bt_data[i].Close, bt_data[i].sma)

\* C2: trade[t] = pos[t+1] - pos[t] at every row but the last, trade is 0
\* at the last row, and trade is always -1, 0 or +1.
C2_TradeIsNextPosChange ==
    /\ \A i \in Rows :
          i < Len(bt_data) =>
              bt_data[i].trade = RSub(bt_data[i + 1].pos, bt_data[i].pos)
    /\ Len(bt_data) > 0 => bt_data[Len(bt_data)].trade = Zero
    /\ \A i \in Rows : bt_data[i].trade \in {MinusOne, Zero, One}

\* C3: when the series holds the observation of 1 December of
\* start_year - 1, that observation is the first row of the table.
C3_ContextRowKept ==
    (\E j \in 1..Len(data) : data[j].Date = Timestamp(start_year - 1, 12, 1))
    => /\ Len(bt_data) > 0
       /\ bt_data[1].Date = Timestamp(start_year - 1, 12, 1)

\* C4: bh and strat are exactly 0 at every row before start_dt, and at the
\* first row on or after start_dt they equal that row's ret and ret_strat.
C4_ZeroBeforeStart ==
    \A i \in Rows :
        /\ ~OnOrAfterStart(i) =>
              /\ bt_data[i].bh = Zero
              /\ bt_data[i].strat = Zero
        /\ (OnOrAfterStart(i) /\ \A j \in 1..(i - 1) : ~OnOrAfterStart(j)) =>
              /\ bt_data[i].bh = bt_data[i].ret
              /\ bt_data[i].strat = bt_data[i].ret_strat

\* C5: pos is 0 or 1 at every row: 1 exactly when the previous row of the
\* series closed strictly above its SMA, and 0 (never undefined) otherwise,
\* also at the first observation of the series.
C5_PosIsZeroOrOne ==
    \A i \in Rows :
        LET j == Src(i)
            smaCol == sma(CloseCol(data), n_sma)
            prevAbove == /\ j > 1
                         /\ RGt(Rat(data[j - 1].Close, 1), smaCol[j - 1])
        IN  bt_data[i].pos = (IF prevAbove THEN One ELSE Zero)

\* 1 + col is at its running maximum at row i (NaN rows are skipped)
AtPeak(col, i) ==
    \A j \in 1..i :
        IsNaN(bt_data[j][col]) \/ RLe(bt_data[j][col], bt_data[i][col])

\* C6 as stated: at every row both drawdowns are <= 0 and > -1, and are 0
\* where 1 + cumulative return equals its running maximum.
C6_DrawdownBoundEveryRow ==
    \A i \in Rows :
        /\ RLe(bt_data[i].bh_dd, Zero) /\ RGt(bt_data[i].bh_dd, MinusOne)
        /\ RLe(bt_data[i].strat_dd, Zero) /\ RGt(bt_data[i].strat_dd, MinusOne)
        /\ AtPeak("bh", i) => bt_data[i].bh_dd = Zero
        /\ AtPeak("strat", i) => bt_data[i].strat_dd = Zero

DrawdownOk(col, dd, i) ==
    IF IsNaN(bt_data[i][col]) THEN IsNaN(bt_data[i][dd])
    ELSE /\ RLe(bt_data[i][dd], Zero)
         /\ RGt(bt_data[i][dd], MinusOne)
         /\ AtPeak(col, i) <=> bt_data[i][dd] = Zero

\* C6 amended: at every row whose cumulative return is defined the drawdown
\* is <= 0 and > -1, and it is 0 exactly where 1 + cumulative return equals
\* the running maximum of the defined values; where the cumulative return
\* is undefined, so is the drawdown.
C6_DrawdownBoundWhereDefined ==
    \A i \in Rows :
        /\ DrawdownOk("bh", "bh_dd", i)
        /\ DrawdownOk("strat", "strat_dd", i)

\* C6 witness: an undefined first row, a later row under water and a still
\* later row back at the peak.
C6_Witness ==
    \E i \in Rows, j \in Rows :
        /\ IsNaN(bt_data[1].bh_dd)
        /\ i < j
        /\ RGt(Zero, bt_data[i].bh_dd)
        /\ bt_data[j].bh_dd = Zero

RECURSIVE DefinedCount(_, _)
DefinedCount(s, i) ==
    IF i = 0 THEN 0
    ELSE DefinedCount(s, i - 1) + (IF IsNaN(s[i]) THEN 0 ELSE 1)

\* C7: the exponent of the annualized return is 12 / count with count the
\* number of defined returns of the column, the ones that enter the product.
C7_CountIsDefinedReturns ==
    /\ stats.ReturnAnnual.BuyHold.num = MonthsPerYear
    /\ stats.ReturnAnnual.Strategy.num = MonthsPerYear
    /\ stats.ReturnAnnual.BuyHold.count =
          DefinedCount(Column(bt_data, "ret"), Len(bt_data))
    /\ stats.ReturnAnnual.Strategy.count =
          DefinedCount(Column(bt_data, "ret_strat"), Len(bt_data))

C9_TradesAlternate ==
    /\ \A i \in Rows, j \in Rows :
          ( /\ i < j
            /\ bt_data[i].trade # Zero
            /\ bt_data[j].trade # Zero
            /\ \A m \in (i + 1)..(j - 1) : bt_data[m].trade = Zero )
          => bt_data[i].trade = RSub(Zero, bt_data[j].trade)
    /\ \A i \in Rows :
          /\ bt_data[i].trade = One => bt_data[i].pos \in {Zero, NaN}
          /\ bt_data[i].trade = MinusOne => bt_data[i].pos = One

\* C9 witness: an entry and the exit that follows it, both in the table.
C9_Witness ==
    \E i \in Rows, j \in Rows :
        /\ i < j
        /\ bt_data[i].trade = One
        /\ bt_data[j].trade = MinusOne

\* C10: the product that calc_stats annualizes equals 1 + the cumulative
\* return at the last row, for "Buy & Hold" and for "Strategy".
C10_StatsCoverCurve ==
    (Len(bt_data) > 0 /\ ~IsNaN(bt_data[Len(bt_data)].bh)) =>
        /\ stats.ReturnAnnual.BuyHold.prod =
              RAdd(One, bt_data[Len(bt_data)].bh)
        /\ stats.ReturnAnnual.Strategy.prod =
              RAdd(One, bt_data[Len(bt_data)].strat)

====
